---- MODULE Spec2Model ----
(***************************************************************************)
(* GoMeet cost calculator (COST_CALCULATIONS.py): the GoMeetCostCalculator *)
(* object, its calculate_* / generate_* methods and main.                  *)
(*                                                                         *)
(* Numbers.  Python computes with ints and binary floats.  The model      *)
(* computes with exact decimal fixed-point numbers ("Dec"): a whole part   *)
(* w and three fractional limbs a, b, c of four decimal digits each, so    *)
(* value = w + a/10^4 + b/10^8 + c/10^12.  Every value the program         *)
(* computes from its literal tables is exact at this resolution; float     *)
(* rounding noise (e.g. 11336.337600000003) is not modelled.  A decimal    *)
(* literal used as a factor (0.15, 0.009, ...) is a fraction [num, den].   *)
(***************************************************************************)
EXTENDS Integers, Sequences, FiniteSets, TLC

\* ------------------------------------------------------------------ Dec
\* radix of a fractional limb: four decimal digits
B == 100 * 100

Dec(w, a, b, c) == [w |-> w, a |-> a, b |-> b, c |-> c]

DInt(n) == Dec(n, 0, 0, 0)

Frac(n, d) == [num |-> n, den |-> d]

DecSet == [w : Int, a : 0..(B - 1), b : 0..(B - 1), c : 0..(B - 1)]

\* The arithmetic is written as functions, so that an operand is evaluated
\* once, when the function is applied
DecAdd ==
    [x \in DecSet, y \in DecSet |->
        LET sc == x.c + y.c
            sb == x.b + y.b + (sc \div B)
            sa == x.a + y.a + (sb \div B)
        IN  Dec(x.w + y.w + (sa \div B), sa % B, sb % B, sc % B)]

DecMulInt ==
    [x \in DecSet, k \in Int |->
        LET pc_ == x.c * k
            pb == x.b * k + (pc_ \div B)
            pa == x.a * k + (pb \div B)
        IN  Dec(x.w * k + (pa \div B), pa % B, pb % B, pc_ % B)]

\* x / k for an integer k > 0: long division over the limbs
DecDivInt ==
    [x \in DecSet, k \in Nat \ {0} |->
        LET ta == (x.w % k) * B + x.a
            tb == (ta % k) * B + x.b
            tc == (tb % k) * B + x.c
        IN  Dec(x.w \div k, ta \div k, tb \div k, tc \div k)]

DecPos == [x \in DecSet |-> x.w > 0 \/ (x.w = 0 /\ (x.a > 0 \/ x.b > 0 \/ x.c > 0))]

\* Python int(x): truncation toward zero
DecTrunc ==
    [x \in DecSet |->
        IF x.w >= 0 \/ (x.a = 0 /\ x.b = 0 /\ x.c = 0) THEN x.w ELSE x.w + 1]

DAdd(x, y) == DecAdd[x, y]

DMulInt(x, k) == DecMulInt[x, k]

DNeg(x) == DecMulInt[x, -1]

DSub(x, y) == DecAdd[x, DecMulInt[y, -1]]

DDivInt(x, k) == DecDivInt[x, k]

\* x * f for a decimal literal f = num/den
DMul(x, f) == DecDivInt[DecMulInt[x, f.num], f.den]

DZero == DInt(0)

DPos(x) == DecPos[x]

DLt(x, y) == DecPos[DSub(y, x)]

DLe(x, y) == ~DecPos[DSub(x, y)]

DTrunc(x) == DecTrunc[x]

Min(i, j) == IF i <= j THEN i ELSE j

\* F applied to the value of v: v is evaluated once, as a statement evaluates
\* the expression it assigns from
With(v, F(_)) == CHOOSE r \in {F(x) : x \in {v}} : TRUE

\* sum(...) over a sequence of Dec
SumOf(s) ==
    LET sum[n \in 0..Len(s)] == IF n = 0 THEN DZero ELSE DecAdd[sum[n - 1], s[n]]
    IN  sum[Len(s)]

DSum(s) == With(s, SumOf)

\* dict.get(key, default)
Get(d, key, default) == IF key \in DOMAIN d THEN d[key] ELSE default

\* Optional values: None, or Some(v)
None == <<>>

Some(v) == <<v>>

\* ------------------------------------------------------------ __init__
InitPricing ==
    [instances |->
        [large  |-> [vcpu |-> 16, ram |-> 64, price |-> 334],
         medium |-> [vcpu |-> 8,  ram |-> 32, price |-> 167],
         small  |-> [vcpu |-> 4,  ram |-> 16, price |-> 84],
         xsmall |-> [vcpu |-> 2,  ram |-> 8,  price |-> 42],
         micro  |-> [vcpu |-> 1,  ram |-> 4,  price |-> 21]],
     storage |->
        [block_storage |-> Frac(10, 100),
         bandwidth |-> [first_100tb |-> Frac(1, 100),
                        next_400tb  |-> Frac(9, 1000),
                        above_500tb |-> Frac(8, 1000)]],
     load_balancer |-> 20,
     cdn |-> Frac(2, 100)]

InitInfrastructure ==
    [livekit_sfu |-> [nodes |-> 25, instance_type |-> "large", storage_gb |-> 200,
                      auto_scaling_min |-> 15, auto_scaling_max |-> 50],
     api_services |->
        [auth_service      |-> [replicas |-> 8,  instance_type |-> "small"],
         meeting_service   |-> [replicas |-> 12, instance_type |-> "small"],
         signaling_service |-> [replicas |-> 25, instance_type |-> "medium"],
         chat_service      |-> [replicas |-> 10, instance_type |-> "xsmall"],
         turn_service      |-> [replicas |-> 8,  instance_type |-> "xsmall"]],
     database |->
        [primary   |-> [nodes |-> 1, instance_type |-> "large", storage_gb |-> 2000],
         replicas  |-> [nodes |-> 3, instance_type |-> "large", storage_gb |-> 2000],
         pgbouncer |-> [nodes |-> 6, instance_type |-> "xsmall"]],
     redis |->
        [masters  |-> [nodes |-> 6, instance_type |-> "medium", storage_gb |-> 500],
         replicas |-> [nodes |-> 6, instance_type |-> "medium", storage_gb |-> 500]],
     gateway |->
        [traefik |-> [nodes |-> 6, instance_type |-> "small"],
         load_balancers |-> 3],
     monitoring |->
        [prometheus   |-> [nodes |-> 2, instance_type |-> "medium", storage_gb |-> 500],
         grafana      |-> [nodes |-> 3, instance_type |-> "xsmall", storage_gb |-> 50],
         alertmanager |-> [nodes |-> 2, instance_type |-> "micro",  storage_gb |-> 20]]]

InitOperationalCosts ==
    [team_salaries |->
        [backend_dev |-> [count |-> 2, monthly_salary |-> 5000],
         devops      |-> [count |-> 1, monthly_salary |-> 5000]],
     marketing_sales |-> 5000,
     operations_support |-> 3000]

InitBandwidthRequirements ==
    [participants_per_meeting |-> 500,
     concurrent_meetings |-> 100,
     active_speakers_ratio |-> Frac(1, 10),
     video_bitrate_mbps |-> 2,
     audio_bitrate_kbps |-> 64,
     peak_hours_per_day |-> 8,
     days_per_month |-> 30,
     overhead_factor |-> Frac(13, 10)]

InitStorageRequirements ==
    [video_bitrate_mbps |-> 2,
     participants_per_meeting |-> 500,
     avg_meeting_duration_hours |-> 2,
     concurrent_meetings |-> 100,
     compression_ratio |-> Frac(3, 10),
     hot_storage_days |-> 30,
     cold_storage_cost_per_gb |-> Frac(4, 1000)]

\* Iteration order of the dict literals that the code walks with .items()
ApiServiceNames ==
    <<"auth_service", "meeting_service", "signaling_service", "chat_service", "turn_service">>

MonitoringNames == <<"prometheus", "grafana", "alertmanager">>

TeamRoles == <<"backend_dev", "devops">>

\* The calculator object: its five tables
Self(p, i, o, b, s) ==
    [pricing |-> p, infrastructure |-> i, operational_costs |-> o,
     bandwidth_requirements |-> b, storage_requirements |-> s]

\* ------------------------------------------------- per-component costs
\* Fault: the RAM total taken from the vCPU column
calculate_instance_cost_RamFromVcpu(self, instance_type, nodes) ==
    LET instance == self.pricing.instances[instance_type]
        monthly_cost == DInt(nodes * instance.price)
    IN  [instance_type |-> instance_type,
         nodes |-> nodes,
         vcpu_total |-> nodes * instance.vcpu,
         ram_total_gb |-> nodes * instance.vcpu,
         monthly_cost |-> monthly_cost,
         annual_cost |-> DMulInt(monthly_cost, 12)]

calculate_instance_cost(self, instance_type, nodes) ==
    LET instance == self.pricing.instances[instance_type]
        monthly_cost == DInt(nodes * instance.price)
    IN  [instance_type |-> instance_type,
         nodes |-> nodes,
         vcpu_total |-> nodes * instance.vcpu,
         ram_total_gb |-> nodes * instance.ram,
         monthly_cost |-> monthly_cost,
         annual_cost |-> DMulInt(monthly_cost, 12)]

\* storage_gb is a Dec
calculate_storage_cost(self, storage_gb) ==
    LET monthly_cost == DMul(storage_gb, self.pricing.storage.block_storage)
    IN  [storage_gb |-> storage_gb,
         monthly_cost |-> monthly_cost,
         annual_cost |-> DMulInt(monthly_cost, 12)]

calculate_livekit_sfu_cost(self) ==
    LET config == self.infrastructure.livekit_sfu
        base_cost == calculate_instance_cost(self, config.instance_type, config.nodes)
        storage_cost == calculate_storage_cost(self, DInt(config.storage_gb * config.nodes))
        auto_scaling_buffer == DMul(base_cost.monthly_cost, Frac(5, 10))
        total_monthly == DAdd(DAdd(base_cost.monthly_cost, storage_cost.monthly_cost),
                              auto_scaling_buffer)
    IN  [component |-> "LiveKit SFU",
         base_cost |-> base_cost,
         storage_cost |-> storage_cost,
         auto_scaling_buffer |-> auto_scaling_buffer,
         total_monthly |-> total_monthly,
         total_annual |-> DMulInt(total_monthly, 12)]

calculate_api_services_cost(self) ==
    LET config == self.infrastructure.api_services
        cost(service_name) ==
            calculate_instance_cost(self, config[service_name].instance_type,
                                    config[service_name].replicas)
            @@ [service |-> service_name]
        services == [k \in 1..Len(ApiServiceNames) |-> cost(ApiServiceNames[k])]
        total_monthly == DSum([k \in 1..Len(services) |-> services[k].monthly_cost])
    IN  [component |-> "API Services",
         services |-> services,
         total_monthly |-> total_monthly,
         total_annual |-> DMulInt(total_monthly, 12)]

calculate_database_cost(self) ==
    LET config == self.infrastructure.database
        primary_cost == calculate_instance_cost(self, config.primary.instance_type,
                                                config.primary.nodes)
        replicas_cost == calculate_instance_cost(self, config.replicas.instance_type,
                                                 config.replicas.nodes)
        pgbouncer_cost == calculate_instance_cost(self, config.pgbouncer.instance_type,
                                                  config.pgbouncer.nodes)
        total_storage == config.primary.storage_gb
                         + config.replicas.storage_gb * config.replicas.nodes
        storage_cost == calculate_storage_cost(self, DInt(total_storage))
        total_monthly == DAdd(DAdd(DAdd(primary_cost.monthly_cost, replicas_cost.monthly_cost),
                                   pgbouncer_cost.monthly_cost),
                              storage_cost.monthly_cost)
    IN  [component |-> "Database Layer",
         primary_cost |-> primary_cost,
         replicas_cost |-> replicas_cost,
         pgbouncer_cost |-> pgbouncer_cost,
         storage_cost |-> storage_cost,
         total_monthly |-> total_monthly,
         total_annual |-> DMulInt(total_monthly, 12)]

\* Fault: the storage of the Redis replicas left out of the cost
calculate_redis_cost_MastersStorageOnly(self) ==
    LET config == self.infrastructure.redis
        masters_cost == calculate_instance_cost(self, config.masters.instance_type,
                                                config.masters.nodes)
        replicas_cost == calculate_instance_cost(self, config.replicas.instance_type,
                                                 config.replicas.nodes)
        total_storage == config.masters.storage_gb * config.masters.nodes
        storage_cost == calculate_storage_cost(self, DInt(total_storage))
        total_monthly == DAdd(DAdd(masters_cost.monthly_cost, replicas_cost.monthly_cost),
                              storage_cost.monthly_cost)
    IN  [component |-> "Redis Cluster",
         masters_cost |-> masters_cost,
         replicas_cost |-> replicas_cost,
         storage_cost |-> storage_cost,
         total_monthly |-> total_monthly,
         total_annual |-> DMulInt(total_monthly, 12)]

calculate_redis_cost(self) ==
    LET config == self.infrastructure.redis
        masters_cost == calculate_instance_cost(self, config.masters.instance_type,
                                                config.masters.nodes)
        replicas_cost == calculate_instance_cost(self, config.replicas.instance_type,
                                                 config.replicas.nodes)
        total_storage == config.masters.storage_gb * config.masters.nodes
                         + config.replicas.storage_gb * config.replicas.nodes
        storage_cost == calculate_storage_cost(self, DInt(total_storage))
        total_monthly == DAdd(DAdd(masters_cost.monthly_cost, replicas_cost.monthly_cost),
                              storage_cost.monthly_cost)
    IN  [component |-> "Redis Cluster",
         masters_cost |-> masters_cost,
         replicas_cost |-> replicas_cost,
         storage_cost |-> storage_cost,
         total_monthly |-> total_monthly,
         total_annual |-> DMulInt(total_monthly, 12)]

calculate_gateway_cost(self) ==
    LET config == self.infrastructure.gateway
        traefik_cost == calculate_instance_cost(self, config.traefik.instance_type,
                                                config.traefik.nodes)
        lb_cost == DInt(config.load_balancers * self.pricing.load_balancer)
        total_monthly == DAdd(traefik_cost.monthly_cost, lb_cost)
    IN  [component |-> "API Gateway",
         traefik_cost |-> traefik_cost,
         load_balancer_cost |-> lb_cost,
         total_monthly |-> total_monthly,
         total_annual |-> DMulInt(total_monthly, 12)]

\* The entries one monitoring component appends to the components list
MonitoringEntries(self, component_name) ==
    LET component_config == self.infrastructure.monitoring[component_name]
        inst == IF "nodes" \in DOMAIN component_config
                THEN <<calculate_instance_cost(self, component_config.instance_type,
                                               component_config.nodes)
                       @@ [component_name |-> component_name]>>
                ELSE <<>>
        stor == IF "storage_gb" \in DOMAIN component_config
                THEN <<calculate_storage_cost(self, DInt(component_config.storage_gb))
                       @@ [component_name |-> component_name]>>
                ELSE <<>>
    IN  inst \o stor

RECURSIVE MonitoringComponents(_, _)
MonitoringComponents(self, names) ==
    IF names = <<>> THEN <<>>
    ELSE MonitoringEntries(self, Head(names)) \o MonitoringComponents(self, Tail(names))

calculate_monitoring_cost(self) ==
    LET components == MonitoringComponents(self, MonitoringNames)
        IsInstance(e) == "nodes" \in DOMAIN e
        inst_monthly == DSum([k \in 1..Len(components) |->
                                IF IsInstance(components[k])
                                THEN components[k].monthly_cost ELSE DZero])
        total_storage_monthly == DSum([k \in 1..Len(components) |->
                                IF IsInstance(components[k])
                                THEN DZero ELSE components[k].monthly_cost])
        total_monthly == DAdd(inst_monthly, total_storage_monthly)
    IN  [component |-> "Monitoring Stack",
         components |-> components,
         total_monthly |-> total_monthly,
         total_annual |-> DMulInt(total_monthly, 12)]

\* ----------------------------------------------------------- bandwidth
\* Lines 303-341: the monthly traffic of the configured meetings, in TB
MonthlyBandwidth(self) ==
    LET req == self.bandwidth_requirements
        active_speakers ==
            DTrunc(DMul(DInt(req.participants_per_meeting), req.active_speakers_ratio))
        upload_bandwidth_mbps == DMul(DInt(active_speakers), Frac(15, 10))
        receive_streams_per_participant == Min(active_speakers + 1, 6)
        download_bandwidth_per_participant ==
            DMul(DInt(receive_streams_per_participant), Frac(8, 10))
        total_download_bandwidth ==
            DMulInt(download_bandwidth_per_participant, req.participants_per_meeting)
        audio_bandwidth_mbps ==
            DDivInt(DInt(req.participants_per_meeting * req.audio_bitrate_kbps), 1000)
        total_per_meeting_mbps ==
            DAdd(DAdd(upload_bandwidth_mbps, total_download_bandwidth), audio_bandwidth_mbps)
        gb_per_hour_per_meeting == DMul(total_per_meeting_mbps, Frac(45, 100))
        gb_per_meeting == DMul(gb_per_hour_per_meeting, Frac(75, 100))
        full_capacity_meetings == DTrunc(DMul(DInt(req.concurrent_meetings), Frac(6, 10)))
        partial_capacity_meetings == req.concurrent_meetings - full_capacity_meetings
        daily_bandwidth_gb ==
            DAdd(DMulInt(gb_per_meeting, full_capacity_meetings),
                 DMulInt(DMul(gb_per_meeting, Frac(3, 10)), partial_capacity_meetings))
        monthly_bandwidth_tb == DDivInt(DMulInt(daily_bandwidth_gb, 22), 1024)
    IN  [total_per_meeting_mbps |-> total_per_meeting_mbps,
         monthly_bandwidth_tb |-> monthly_bandwidth_tb]

\* Lines 345-346 (the value is computed and never read)
ChargeableBandwidth(monthly_bandwidth_tb) ==
    LET included_bandwidth_tb == 1
        d == DSub(monthly_bandwidth_tb, DInt(included_bandwidth_tb))
    IN  IF DPos(d) THEN d ELSE DZero

\* Line 350: the branch taken when monthly_bandwidth_tb <= 100
FirstTierCost(self, monthly_bandwidth_tb) ==
    DMul(DMulInt(monthly_bandwidth_tb, 1024), self.pricing.storage.bandwidth.first_100tb)

\* Fault: the first 100 TB priced at the second tier's rate
SecondTierCost_FlatRate(self, monthly_bandwidth_tb) ==
    LET cost_100tb == DMul(DInt(100 * 1024), self.pricing.storage.bandwidth.next_400tb)
        remaining_tb == DSub(monthly_bandwidth_tb, DInt(100))
        cost_remaining == DMul(DMulInt(remaining_tb, 1024),
                               self.pricing.storage.bandwidth.next_400tb)
    IN  DAdd(cost_100tb, cost_remaining)

\* Lines 352-355: the branch taken when 100 < monthly_bandwidth_tb <= 500
SecondTierCost(self, monthly_bandwidth_tb) ==
    LET cost_100tb == DMul(DInt(100 * 1024), self.pricing.storage.bandwidth.first_100tb)
        remaining_tb == DSub(monthly_bandwidth_tb, DInt(100))
        cost_remaining == DMul(DMulInt(remaining_tb, 1024),
                               self.pricing.storage.bandwidth.next_400tb)
    IN  DAdd(cost_100tb, cost_remaining)

\* Fault: the 400 TB of the second tier left out of the third branch
ThirdTierCost_NoMiddle(self, monthly_bandwidth_tb) ==
    LET cost_100tb == DMul(DInt(100 * 1024), self.pricing.storage.bandwidth.first_100tb)
        remaining_tb == DSub(monthly_bandwidth_tb, DInt(500))
        cost_remaining == DMul(DMulInt(remaining_tb, 1024),
                               self.pricing.storage.bandwidth.above_500tb)
    IN  DAdd(cost_100tb, cost_remaining)

\* Lines 357-361: the branch taken when monthly_bandwidth_tb > 500
ThirdTierCost(self, monthly_bandwidth_tb) ==
    LET cost_100tb == DMul(DInt(100 * 1024), self.pricing.storage.bandwidth.first_100tb)
        cost_400tb == DMul(DInt(400 * 1024), self.pricing.storage.bandwidth.next_400tb)
        remaining_tb == DSub(monthly_bandwidth_tb, DInt(500))
        cost_remaining == DMul(DMulInt(remaining_tb, 1024),
                               self.pricing.storage.bandwidth.above_500tb)
    IN  DAdd(DAdd(cost_100tb, cost_400tb), cost_remaining)

\* Lines 349-361: tiered pricing of the monthly total
TieredBandwidthCost(self, monthly_bandwidth_tb) ==
    IF DLe(monthly_bandwidth_tb, DInt(100)) THEN FirstTierCost(self, monthly_bandwidth_tb)
    ELSE IF DLe(monthly_bandwidth_tb, DInt(500)) THEN SecondTierCost(self, monthly_bandwidth_tb)
    ELSE ThirdTierCost(self, monthly_bandwidth_tb)

\* Lines 343-371, for a given monthly total
BandwidthResult(self, total_per_meeting_mbps, monthly_bandwidth_tb) ==
    LET chargeable_bandwidth_tb == ChargeableBandwidth(monthly_bandwidth_tb)
        monthly_cost == TieredBandwidthCost(self, monthly_bandwidth_tb)
    IN  [component |-> "Bandwidth",
         per_meeting_bandwidth_mbps |-> total_per_meeting_mbps,
         peak_bandwidth_tb |-> DMul(monthly_bandwidth_tb, Frac(6, 10)),
         off_peak_bandwidth_tb |-> DMul(monthly_bandwidth_tb, Frac(4, 10)),
         total_bandwidth_tb |-> monthly_bandwidth_tb,
         monthly_cost |-> monthly_cost,
         annual_cost |-> DMulInt(monthly_cost, 12)]

calculate_bandwidth_cost(self) ==
    With(MonthlyBandwidth(self),
         LAMBDA m : BandwidthResult(self, m.total_per_meeting_mbps, m.monthly_bandwidth_tb))

\* ------------------------------------------------- recordings storage
calculate_storage_requirements_cost(self) ==
    LET req == self.storage_requirements
        active_streams_per_meeting ==
            Min(DTrunc(DMul(DInt(req.participants_per_meeting), Frac(15, 100))), 8)
        recording_bitrate_mbps == DInt(1)
        per_hour_gb == DDivInt(DDivInt(DMulInt(recording_bitrate_mbps, 3600), 8), 1024)
        per_meeting_gb == DMulInt(DMulInt(per_hour_gb, active_streams_per_meeting),
                                  req.avg_meeting_duration_hours)
        recording_adoption_rate == Frac(7, 10)
        daily_meetings == DTrunc(DMul(DInt(req.concurrent_meetings), recording_adoption_rate))
        daily_storage_gb == DMulInt(per_meeting_gb, daily_meetings)
        compressed_daily_storage_gb == DMul(daily_storage_gb, req.compression_ratio)
        hot_storage_gb == DMulInt(compressed_daily_storage_gb, req.hot_storage_days)
        cold_storage_months == 11
        cold_storage_gb == DMulInt(DMulInt(compressed_daily_storage_gb, cold_storage_months), 30)
        hot_storage_cost == DMul(hot_storage_gb, self.pricing.storage.block_storage)
        cold_storage_cost == DMul(cold_storage_gb, req.cold_storage_cost_per_gb)
        total_monthly == DAdd(hot_storage_cost, cold_storage_cost)
    IN  [component |-> "Storage (Recordings)",
         per_meeting_gb |-> per_meeting_gb,
         daily_storage_gb |-> daily_storage_gb,
         compressed_daily_storage_gb |-> compressed_daily_storage_gb,
         hot_storage_gb |-> hot_storage_gb,
         cold_storage_gb |-> cold_storage_gb,
         hot_storage_monthly_cost |-> hot_storage_cost,
         cold_storage_monthly_cost |-> cold_storage_cost,
         total_monthly |-> total_monthly,
         total_annual |-> DMulInt(total_monthly, 12)]

\* ---------------------------------------------------------- aggregates
calculate_operational_costs(self) ==
    LET salaries == self.operational_costs.team_salaries
        detail(role) ==
            [role |-> role,
             count |-> salaries[role].count,
             monthly_salary |-> salaries[role].monthly_salary,
             monthly_cost |-> DInt(salaries[role].count * salaries[role].monthly_salary)]
        team_details == [k \in 1..Len(TeamRoles) |-> detail(TeamRoles[k])]
        team_monthly == DSum([k \in 1..Len(team_details) |-> team_details[k].monthly_cost])
        total_monthly == DAdd(DAdd(team_monthly, DInt(self.operational_costs.marketing_sales)),
                              DInt(self.operational_costs.operations_support))
    IN  [component |-> "Operational Costs",
         team_costs |-> team_details,
         team_monthly |-> team_monthly,
         marketing_sales |-> self.operational_costs.marketing_sales,
         operations_support |-> self.operational_costs.operations_support,
         total_monthly |-> total_monthly,
         total_annual |-> DMulInt(total_monthly, 12)]

\* Lines 453-462: the components list
InfrastructureComponents(self) ==
    <<calculate_livekit_sfu_cost(self),
      calculate_api_services_cost(self),
      calculate_database_cost(self),
      calculate_redis_cost(self),
      calculate_gateway_cost(self),
      calculate_monitoring_cost(self),
      calculate_bandwidth_cost(self),
      calculate_storage_requirements_cost(self)>>

\* Fault: the annual total taken from the total before contingency
TotalInfrastructureResult_AnnualNoContingency(components) ==
    LET total_infrastructure_monthly ==
            DSum([k \in 1..Len(components) |-> Get(components[k], "total_monthly", DZero)])
        contingency == DMul(total_infrastructure_monthly, Frac(15, 100))
        total_with_contingency == DAdd(total_infrastructure_monthly, contingency)
    IN  [components |-> components,
         infrastructure_monthly |-> total_infrastructure_monthly,
         contingency_monthly |-> contingency,
         total_monthly |-> total_with_contingency,
         total_annual |-> DMulInt(total_infrastructure_monthly, 12)]

\* Fault: the contingency computed and not added
TotalInfrastructureResult_TotalNoContingency(components) ==
    LET total_infrastructure_monthly ==
            DSum([k \in 1..Len(components) |-> Get(components[k], "total_monthly", DZero)])
        contingency == DMul(total_infrastructure_monthly, Frac(15, 100))
        total_with_contingency == total_infrastructure_monthly
    IN  [components |-> components,
         infrastructure_monthly |-> total_infrastructure_monthly,
         contingency_monthly |-> contingency,
         total_monthly |-> total_with_contingency,
         total_annual |-> DMulInt(total_with_contingency, 12)]

\* Lines 464-477, for the components list
TotalInfrastructureResult(components) ==
    LET total_infrastructure_monthly ==
            DSum([k \in 1..Len(components) |-> Get(components[k], "total_monthly", DZero)])
        contingency == DMul(total_infrastructure_monthly, Frac(15, 100))
        total_with_contingency == DAdd(total_infrastructure_monthly, contingency)
    IN  [components |-> components,
         infrastructure_monthly |-> total_infrastructure_monthly,
         contingency_monthly |-> contingency,
         total_monthly |-> total_with_contingency,
         total_annual |-> DMulInt(total_with_contingency, 12)]

calculate_total_infrastructure_cost(self) ==
    With(InfrastructureComponents(self), TotalInfrastructureResult)

\* Fault: the development cost from the backend developers alone
calculate_one_time_costs_BackendOnly(self) ==
    LET development_months == 4
        salaries == self.operational_costs.team_salaries
        team_monthly_cost == salaries.backend_dev.count * salaries.backend_dev.monthly_salary
        development_cost == team_monthly_cost * development_months
    IN  [development |-> DInt(development_cost),
         infrastructure_setup |-> DInt(50000),
         testing_qa |-> DInt(30000),
         marketing_launch |-> DInt(50000),
         total |-> DInt(development_cost + 50000 + 30000 + 50000)]

calculate_one_time_costs(self) ==
    LET development_months == 4
        salaries == self.operational_costs.team_salaries
        team_monthly_cost == salaries.backend_dev.count * salaries.backend_dev.monthly_salary
                             + salaries.devops.count * salaries.devops.monthly_salary
        development_cost == team_monthly_cost * development_months
    IN  [development |-> DInt(development_cost),
         infrastructure_setup |-> DInt(50000),
         testing_qa |-> DInt(30000),
         marketing_launch |-> DInt(50000),
         total |-> DInt(development_cost + 50000 + 30000 + 50000)]

\* ------------------------------------------------ optimization analysis
OptimizationNames ==
    <<"reserved_instances", "spot_instances", "storage_optimization", "network_optimization">>

\* Fault: spot_instances extended to the components of reserved_instances
Optimizations_Overlapping ==
    [reserved_instances |->
        [description |-> "30% discount for 1-year commitment",
         savings_percentage |-> Frac(30, 100),
         applicable_components |->
            {"LiveKit SFU", "API Services", "Database Layer", "Redis Cluster"}],
     spot_instances |->
        [description |-> "70% discount for non-critical services",
         savings_percentage |-> Frac(70, 100),
         applicable_components |->
            {"Monitoring Stack", "Development environments",
             "LiveKit SFU", "API Services", "Database Layer", "Redis Cluster"}],
     storage_optimization |->
        [description |-> "Compression and tiered storage",
         savings_percentage |-> Frac(50, 100),
         applicable_components |-> {"Storage (Recordings)"}],
     network_optimization |->
        [description |-> "CDN integration and compression",
         savings_percentage |-> Frac(30, 100),
         applicable_components |-> {"Bandwidth"}]]

Optimizations ==
    [reserved_instances |->
        [description |-> "30% discount for 1-year commitment",
         savings_percentage |-> Frac(30, 100),
         applicable_components |->
            {"LiveKit SFU", "API Services", "Database Layer", "Redis Cluster"}],
     spot_instances |->
        [description |-> "70% discount for non-critical services",
         savings_percentage |-> Frac(70, 100),
         applicable_components |-> {"Monitoring Stack", "Development environments"}],
     storage_optimization |->
        [description |-> "Compression and tiered storage",
         savings_percentage |-> Frac(50, 100),
         applicable_components |-> {"Storage (Recordings)"}],
     network_optimization |->
        [description |-> "CDN integration and compression",
         savings_percentage |-> Frac(30, 100),
         applicable_components |-> {"Bandwidth"}]]

\* Lines 618-634: one entry of optimization_details
OptimizationDetail(base_infrastructure_cost, opt_name) ==
    LET opt_config == Optimizations[opt_name]
        components == base_infrastructure_cost.components
        applicable_cost ==
            DSum([k \in 1..Len(components) |->
                    IF components[k].component \in opt_config.applicable_components
                    THEN Get(components[k], "total_monthly", DZero) ELSE DZero])
        monthly_savings == DMul(applicable_cost, opt_config.savings_percentage)
    IN  [optimization |-> opt_name,
         description |-> opt_config.description,
         applicable_cost |-> applicable_cost,
         savings_percentage |-> opt_config.savings_percentage,
         monthly_savings |-> monthly_savings,
         annual_savings |-> DMulInt(monthly_savings, 12)]

\* Lines 614-644, for the infrastructure total of line 589
OptimizationResult(base_infrastructure_cost) ==
    LET optimization_details ==
            [k \in 1..Len(OptimizationNames) |->
                OptimizationDetail(base_infrastructure_cost, OptimizationNames[k])]
        total_monthly_savings ==
            DSum([k \in 1..Len(optimization_details) |-> optimization_details[k].monthly_savings])
        optimized_monthly_cost ==
            DSub(base_infrastructure_cost.total_monthly, total_monthly_savings)
    IN  [base_monthly_cost |-> base_infrastructure_cost.total_monthly,
         optimizations |-> optimization_details,
         total_monthly_savings |-> total_monthly_savings,
         optimized_monthly_cost |-> optimized_monthly_cost,
         total_annual_savings |-> DMulInt(total_monthly_savings, 12)]

generate_cost_optimization_analysis(self) ==
    With(calculate_total_infrastructure_cost(self), OptimizationResult)

\* ------------------------------------------------------ resource summary
RECURSIVE ISum(_)
ISum(s) == IF s = <<>> THEN 0 ELSE Head(s) + ISum(Tail(s))

generate_resource_summary(self) ==
    LET inst == self.pricing.instances
        livekit == self.infrastructure.livekit_sfu
        api == self.infrastructure.api_services
        db_config == self.infrastructure.database
        redis_config == self.infrastructure.redis
        gateway_config == self.infrastructure.gateway
        monitoring_config == self.infrastructure.monitoring
        mon(k) == monitoring_config[MonitoringNames[k]]
        svc(k) == api[ApiServiceNames[k]]
        total_vcpu ==
            livekit.nodes * inst[livekit.instance_type].vcpu
            + ISum([k \in 1..Len(ApiServiceNames) |->
                        svc(k).replicas * inst[svc(k).instance_type].vcpu])
            + (db_config.primary.nodes + db_config.replicas.nodes)
                * inst[db_config.primary.instance_type].vcpu
            + db_config.pgbouncer.nodes * inst[db_config.pgbouncer.instance_type].vcpu
            + (redis_config.masters.nodes + redis_config.replicas.nodes)
                * inst[redis_config.masters.instance_type].vcpu
            + gateway_config.traefik.nodes * inst[gateway_config.traefik.instance_type].vcpu
            + ISum([k \in 1..Len(MonitoringNames) |->
                        IF "nodes" \in DOMAIN mon(k)
                        THEN mon(k).nodes * inst[mon(k).instance_type].vcpu ELSE 0])
        total_ram_gb ==
            livekit.nodes * inst[livekit.instance_type].ram
            + ISum([k \in 1..Len(ApiServiceNames) |->
                        svc(k).replicas * inst[svc(k).instance_type].ram])
            + (db_config.primary.nodes + db_config.replicas.nodes)
                * inst[db_config.primary.instance_type].ram
            + db_config.pgbouncer.nodes * inst[db_config.pgbouncer.instance_type].ram
            + (redis_config.masters.nodes + redis_config.replicas.nodes)
                * inst[redis_config.masters.instance_type].ram
            + gateway_config.traefik.nodes * inst[gateway_config.traefik.instance_type].ram
            + ISum([k \in 1..Len(MonitoringNames) |->
                        IF "nodes" \in DOMAIN mon(k)
                        THEN mon(k).nodes * inst[mon(k).instance_type].ram ELSE 0])
        total_storage_gb ==
            livekit.nodes * livekit.storage_gb
            + db_config.primary.storage_gb
            + db_config.replicas.storage_gb * db_config.replicas.nodes
            + redis_config.masters.storage_gb * redis_config.masters.nodes
            + redis_config.replicas.storage_gb * redis_config.replicas.nodes
            + ISum([k \in 1..Len(MonitoringNames) |->
                        IF "storage_gb" \in DOMAIN mon(k) THEN mon(k).storage_gb ELSE 0])
    IN  [total_vcpu |-> total_vcpu,
         total_ram_gb |-> total_ram_gb,
         total_storage_gb |-> total_storage_gb,
         participant_capacity |-> 50000,
         meetings_capacity |-> 100,
         cost_per_participant_monthly |->
            With(calculate_total_infrastructure_cost(self),
                 LAMBDA total : DDivInt(total.total_monthly, 50000)),
         cost_per_meeting_monthly |->
            With(calculate_total_infrastructure_cost(self),
                 LAMBDA total : DDivInt(total.total_monthly, 100))]

\* ------------------------------------------------------------ ROI pieces
PricingTiers ==
    [basic        |-> [price |-> 10,  max_participants |-> 50],
     professional |-> [price |-> 50,  max_participants |-> 200],
     enterprise   |-> [price |-> 200, max_participants |-> 500]]

\* Lines 505-524: the scenarios literal, in insertion order (meetings are Dec)
Scenario(name, y1, y2, y3, ratio) ==
    [name |-> name, year1_meetings_per_day |-> y1, year2_meetings_per_day |-> y2,
     year3_meetings_per_day |-> y3, enterprise_ratio |-> ratio]

InitScenarios ==
    <<Scenario("conservative", DInt(100), DInt(500), DInt(1000), Frac(20, 100)),
      Scenario("moderate", DInt(200), DInt(1000), DInt(2000), Frac(25, 100)),
      Scenario("aggressive", DInt(500), DInt(2000), DInt(5000), Frac(30, 100))>>

\* scenario_config[f'year{year}_meetings_per_day']
MeetingsPerDay(scenario_config, year) ==
    CASE year = 1 -> scenario_config.year1_meetings_per_day
      [] year = 2 -> scenario_config.year2_meetings_per_day
      [] year = 3 -> scenario_config.year3_meetings_per_day

\* Lines 537-549
YearlyRevenue(scenario_config, year) ==
    LET meetings_per_day == MeetingsPerDay(scenario_config, year)
        enterprise_ratio == scenario_config.enterprise_ratio
        enterprise_meetings == DMul(meetings_per_day, enterprise_ratio)
        professional_meetings == DMul(meetings_per_day, Frac(3, 10))
        basic_meetings == DSub(DSub(meetings_per_day, enterprise_meetings),
                               professional_meetings)
        monthly_revenue ==
            DMulInt(DAdd(DAdd(DMulInt(enterprise_meetings, PricingTiers.enterprise.price),
                              DMulInt(professional_meetings, PricingTiers.professional.price)),
                         DMulInt(basic_meetings, PricingTiers.basic.price)),
                    30)
    IN  DMulInt(monthly_revenue, 12)

\* Line 550
YearlyProfit(scenario_config, year, total_monthly_burn) ==
    DSub(YearlyRevenue(scenario_config, year), DMulInt(total_monthly_burn, 12))

\* Lines 558-563
MonthlyProfit(yearly_profit, month) ==
    IF month <= 12 THEN DDivInt(yearly_profit[1], 12)
    ELSE IF month <= 24 THEN DDivInt(yearly_profit[2], 12)
    ELSE DDivInt(yearly_profit[3], 12)

\* Lines 565-568
NextCumulative(month, cumulative_profit, monthly_profit, one_time_costs) ==
    IF month = 1 THEN DSub(monthly_profit, one_time_costs)
    ELSE DAdd(cumulative_profit, monthly_profit)

\* Fault: a cumulative profit of exactly zero taken as break-even
BreaksEven_AtZero(cumulative_profit, break_even_month) ==
    (DPos(cumulative_profit) \/ cumulative_profit = DZero) /\ break_even_month = None

\* Line 570
BreaksEven(cumulative_profit, break_even_month) ==
    DPos(cumulative_profit) /\ break_even_month = None

\* =============================================================== bounds
\* node counts tried for calculate_instance_cost: 0..MaxNodes
MaxNodes == 2

\* storage sizes tried for calculate_storage_cost: 0, 250, ... GB
MaxStorageStep == 2

\* meetings-per-day levels tried in a scenario: 0, 15, ..., 15 * MaxLevel
MaxLevel == 3

\* clock readings datetime.now() may return: 1..MaxTime
MaxTime == 2

\* monthly totals tried for the bandwidth tiers: 0, 50, ..., 50 * MaxTBStep TB
MaxTBStep == 12

\* ================================================================ state
VARIABLES
    pricing, infrastructure, operational_costs,      \* the calculator's tables
    bandwidth_requirements, storage_requirements,
    scenarios,      \* the scenarios table of generate_roi_analysis
    pc,             \* the statement the program is at
    stack,          \* where the running generate_* methods return to
    call,           \* the method called last from outside, with its arguments
    ret,            \* its result: None while it runs
    memo,           \* an earlier call and its result, kept for comparison
    roi,            \* the local variables of generate_roi_analysis
    report,         \* the dictionary generate_complete_report is building
    calls,          \* invocations of each routine by the running generate_* call
    out             \* what main wrote: the JSON file and the printed summary

tables == <<pricing, infrastructure, operational_costs,
            bandwidth_requirements, storage_requirements>>

vars == <<pricing, infrastructure, operational_costs, bandwidth_requirements,
          storage_requirements, scenarios, pc, stack, call, ret, memo, roi,
          report, calls, out>>

SelfNow == Self(pricing, infrastructure, operational_costs,
                bandwidth_requirements, storage_requirements)

\* range(1, 37), line 557
LastMonth == 36

ComponentRoutines ==
    {"calculate_livekit_sfu_cost", "calculate_api_services_cost",
     "calculate_database_cost", "calculate_redis_cost", "calculate_gateway_cost",
     "calculate_monitoring_cost", "calculate_bandwidth_cost",
     "calculate_storage_requirements_cost"}

Routines ==
    ComponentRoutines \cup
    {"calculate_total_infrastructure_cost", "calculate_operational_costs",
     "calculate_one_time_costs"}

NoCalls == [r \in Routines |-> 0]

\* k invocations of one routine
Bump(c, routine, k) == [c EXCEPT ![routine] = @ + k]

\* k invocations of calculate_total_infrastructure_cost, each calling the
\* eight component routines (lines 453-462)
BumpInfra(c, k) ==
    [r \in Routines |->
        IF r \in ComponentRoutines \cup {"calculate_total_infrastructure_cost"}
        THEN c[r] + k ELSE c[r]]

NoCall == [method |-> "", args |-> <<>>]

RoiIdle ==
    [sidx |-> 0, total_monthly_burn |-> DZero, yearly_revenue |-> <<>>,
     yearly_profit |-> <<>>, cumulative_profit |-> DZero, break_even_month |-> None,
     one_time_costs |-> DZero, month |-> 0, iterations |-> 0, roi_analysis |-> <<>>]

NoOutput == [file |-> None, summary |-> None]

NoReport == [timestamp |-> 0]

\* ------------------------------------------------------ scenario inputs
\* 42.83178125 meetings a day: with the literal tables the cumulative profit
\* of a 20%-enterprise scenario is exactly 0 at month 8
ZeroCrossLevel == Dec(42, 8317, 8125, 0)

MeetingLevels == {DInt(15 * i) : i \in 0..MaxLevel} \cup {ZeroCrossLevel}

ScenarioTables ==
    {InitScenarios} \cup
    {<<Scenario("probe", y1, y2, y3, Frac(20, 100))>> :
        y1 \in MeetingLevels, y2 \in MeetingLevels, y3 \in MeetingLevels}

\* ----------------------------------------------------------------- Init
InitCommon ==
    /\ pricing = InitPricing
    /\ infrastructure = InitInfrastructure
    /\ operational_costs = InitOperationalCosts
    /\ bandwidth_requirements = InitBandwidthRequirements
    /\ storage_requirements = InitStorageRequirements
    /\ stack = <<>>
    /\ call = NoCall
    /\ ret = None
    /\ memo = None
    /\ roi = RoiIdle
    /\ report = NoReport
    /\ calls = NoCalls
    /\ out = NoOutput

\* a constructed calculator, its methods callable from outside
Init ==
    /\ InitCommon
    /\ scenarios = InitScenarios
    /\ pc = "idle"

\* the program about to run main
InitMain ==
    /\ InitCommon
    /\ scenarios \in ScenarioTables
    /\ pc = "main"

\* ------------------------------------------------ calls from outside
\* A call returns: record it.  One earlier call is remembered for comparison
\* with the later ones: any call may become the remembered one
Returns(method, args, result) ==
    /\ call' = [method |-> method, args |-> args]
    /\ ret' = Some(result)
    /\ IF memo # None
       THEN memo' = Some([memo[1] EXCEPT !.fresh = FALSE])
       ELSE \E remember \in BOOLEAN :
               memo' = IF remember
                       THEN Some([call |-> call', ret |-> ret', fresh |-> TRUE])
                       ELSE None

\* Fault: calculate_api_services_cost extends the configuration entry itself
\* instead of the cost dictionary (cost aliased to service_config)
AfterCall_Aliased(method, self) ==
    IF method = "calculate_api_services_cost"
    THEN [self EXCEPT !.infrastructure.api_services.auth_service =
                            @ @@ [service |-> "auth_service"]]
    ELSE self

\* The calculator after a method ran.  No method assigns to an attribute of
\* self or to an entry of a table: the dictionaries the methods extend (lines
\* 162, 282, 288) are the fresh results of calculate_instance_cost and
\* calculate_storage_cost
AfterCall(method, self) == self

Atomic(method, args, result) ==
    /\ pc = "idle"
    /\ Returns(method, args, result)
    /\ pricing' = AfterCall(method, SelfNow).pricing
    /\ infrastructure' = AfterCall(method, SelfNow).infrastructure
    /\ operational_costs' = AfterCall(method, SelfNow).operational_costs
    /\ bandwidth_requirements' = AfterCall(method, SelfNow).bandwidth_requirements
    /\ storage_requirements' = AfterCall(method, SelfNow).storage_requirements
    /\ UNCHANGED <<scenarios, pc, stack, roi, report, calls, out>>

StorageSizes == {DInt(250 * i) : i \in 0..MaxStorageStep}

CallInstanceCost ==
    \E instance_type \in DOMAIN pricing.instances, nodes \in 0..MaxNodes :
        Atomic("calculate_instance_cost", <<instance_type, nodes>>,
               calculate_instance_cost(SelfNow, instance_type, nodes))

CallStorageCost ==
    \E storage_gb \in StorageSizes :
        Atomic("calculate_storage_cost", <<storage_gb>>,
               calculate_storage_cost(SelfNow, storage_gb))

CallLivekitSfuCost ==
    Atomic("calculate_livekit_sfu_cost", <<>>, calculate_livekit_sfu_cost(SelfNow))

CallApiServicesCost ==
    Atomic("calculate_api_services_cost", <<>>, calculate_api_services_cost(SelfNow))

CallDatabaseCost ==
    Atomic("calculate_database_cost", <<>>, calculate_database_cost(SelfNow))

CallRedisCost ==
    Atomic("calculate_redis_cost", <<>>, calculate_redis_cost(SelfNow))

CallGatewayCost ==
    Atomic("calculate_gateway_cost", <<>>, calculate_gateway_cost(SelfNow))

CallMonitoringCost ==
    Atomic("calculate_monitoring_cost", <<>>, calculate_monitoring_cost(SelfNow))

CallBandwidthCost ==
    Atomic("calculate_bandwidth_cost", <<>>, calculate_bandwidth_cost(SelfNow))

CallStorageRequirementsCost ==
    Atomic("calculate_storage_requirements_cost", <<>>,
           calculate_storage_requirements_cost(SelfNow))

CallOperationalCosts ==
    Atomic("calculate_operational_costs", <<>>, calculate_operational_costs(SelfNow))

CallTotalInfrastructureCost ==
    Atomic("calculate_total_infrastructure_cost", <<>>,
           calculate_total_infrastructure_cost(SelfNow))

CallOneTimeCosts ==
    Atomic("calculate_one_time_costs", <<>>, calculate_one_time_costs(SelfNow))

CallCostOptimizationAnalysis ==
    Atomic("generate_cost_optimization_analysis", <<>>,
           generate_cost_optimization_analysis(SelfNow))

CallResourceSummary ==
    Atomic("generate_resource_summary", <<>>, generate_resource_summary(SelfNow))

\* generate_roi_analysis and generate_complete_report run step by step
Enter(method, first) ==
    /\ pc = "idle"
    /\ call' = [method |-> method, args |-> <<>>]
    /\ ret' = None
    /\ pc' = first
    /\ stack' = <<"idle">>
    /\ calls' = NoCalls
    /\ UNCHANGED <<tables, scenarios, memo, roi, report, out>>

CallRoiAnalysis == Enter("generate_roi_analysis", "roi_begin")

CallCompleteReport == Enter("generate_complete_report", "report_begin")

\* A step-by-step method returns `result`: to the outside (recorded like any
\* call) or to the statement of generate_complete_report that called it
ReturnOutside(result) ==
    /\ Returns(call.method, call.args, result)
    /\ pc' = "idle"
    /\ stack' = <<>>
    /\ calls' = NoCalls

\* ------------------------------------------------ generate_roi_analysis
\* Lines 499-530: the two cost totals and the burn rate
roi_begin ==
    /\ pc = "roi_begin"
    /\ LET operational_costs_ == calculate_operational_costs(SelfNow)
           infrastructure_costs == calculate_total_infrastructure_cost(SelfNow)
           total_monthly_burn == DAdd(operational_costs_.total_monthly,
                                      infrastructure_costs.total_monthly)
       IN  roi' = [RoiIdle EXCEPT !.total_monthly_burn = total_monthly_burn, !.sidx = 1]
    /\ calls' = BumpInfra(Bump(calls, "calculate_operational_costs", 1), 1)
    /\ pc' = IF Len(scenarios) >= 1 THEN "roi_scenario" ELSE "roi_return"
    /\ UNCHANGED <<tables, scenarios, stack, call, ret, memo, report, out>>

\* Lines 532-555: the yearly figures of the next scenario, and the scan's start
roi_scenario ==
    /\ pc = "roi_scenario"
    /\ LET scenario_config == scenarios[roi.sidx]
       IN  roi' = [roi EXCEPT
                !.yearly_revenue = [year \in 1..3 |-> YearlyRevenue(scenario_config, year)],
                !.yearly_profit = [year \in 1..3 |->
                        YearlyProfit(scenario_config, year, roi.total_monthly_burn)],
                !.cumulative_profit = DZero,
                !.break_even_month = None,
                !.one_time_costs = calculate_one_time_costs(SelfNow).total,
                !.month = 0,
                !.iterations = 0]
    /\ calls' = Bump(calls, "calculate_one_time_costs", 1)
    /\ pc' = "roi_loop"
    /\ UNCHANGED <<tables, scenarios, stack, call, ret, memo, report, out>>

\* Fault: the loop without its break
roi_month_NoBreak ==
    /\ pc = "roi_loop"
    /\ LET month == roi.month + 1
           monthly_profit == MonthlyProfit(roi.yearly_profit, month)
           cumulative_profit == NextCumulative(month, roi.cumulative_profit,
                                               monthly_profit, roi.one_time_costs)
           found == BreaksEven(cumulative_profit, roi.break_even_month)
       IN  /\ roi' = [roi EXCEPT
                    !.month = month,
                    !.iterations = @ + 1,
                    !.cumulative_profit = cumulative_profit,
                    !.break_even_month = IF found THEN Some(month) ELSE @]
           /\ pc' = IF month >= LastMonth THEN "roi_store" ELSE "roi_loop"
    /\ UNCHANGED <<tables, scenarios, stack, call, ret, memo, report, calls, out>>

\* Lines 557-572: one iteration of the break-even loop
roi_month ==
    /\ pc = "roi_loop"
    /\ LET month == roi.month + 1
           monthly_profit == MonthlyProfit(roi.yearly_profit, month)
           cumulative_profit == NextCumulative(month, roi.cumulative_profit,
                                               monthly_profit, roi.one_time_costs)
           found == BreaksEven(cumulative_profit, roi.break_even_month)
       IN  /\ roi' = [roi EXCEPT
                    !.month = month,
                    !.iterations = @ + 1,
                    !.cumulative_profit = cumulative_profit,
                    !.break_even_month = IF found THEN Some(month) ELSE @]
           /\ pc' = IF found \/ month >= LastMonth THEN "roi_store" ELSE "roi_loop"
    /\ UNCHANGED <<tables, scenarios, stack, call, ret, memo, report, calls, out>>

\* Fault: the three-year profit without the one-time costs
RoiEntry_NoOneTime(name, r) ==
    [name |-> name,
     yearly_revenue |-> r.yearly_revenue,
     yearly_profit |-> r.yearly_profit,
     break_even_month |-> r.break_even_month,
     total_3_year_profit |-> DSum(r.yearly_profit)]

\* Lines 574-579: the scenario's entry of roi_analysis
RoiEntry(name, r) ==
    [name |-> name,
     yearly_revenue |-> r.yearly_revenue,
     yearly_profit |-> r.yearly_profit,
     break_even_month |-> r.break_even_month,
     total_3_year_profit |-> DSub(DSum(r.yearly_profit), r.one_time_costs)]

roi_store ==
    /\ pc = "roi_store"
    /\ roi' = [roi EXCEPT
            !.roi_analysis = Append(@, RoiEntry(scenarios[roi.sidx].name, roi)),
            !.sidx = @ + 1]
    /\ pc' = IF roi.sidx < Len(scenarios) THEN "roi_scenario" ELSE "roi_return"
    /\ UNCHANGED <<tables, scenarios, stack, call, ret, memo, report, calls, out>>

\* Fault: the burn rate without the operational costs
RoiResult_InfrastructureBurn(self, r) ==
    [scenarios |-> r.roi_analysis,
     monthly_burn |-> calculate_total_infrastructure_cost(self).total_monthly,
     one_time_costs |-> calculate_one_time_costs(self)]

\* Lines 581-585
RoiResult(self, r) ==
    [scenarios |-> r.roi_analysis,
     monthly_burn |-> r.total_monthly_burn,
     one_time_costs |-> calculate_one_time_costs(self)]

roi_return ==
    /\ pc = "roi_return"
    /\ roi' = RoiIdle
    /\ IF Head(stack) = "idle"
       THEN /\ ReturnOutside(RoiResult(SelfNow, roi))
            /\ UNCHANGED report
       ELSE /\ report' = report @@ [roi_analysis |-> RoiResult(SelfNow, roi)]
            /\ calls' = Bump(calls, "calculate_one_time_costs", 1)
            /\ pc' = Head(stack)
            /\ stack' = Tail(stack)
            /\ UNCHANGED <<call, ret, memo>>
    /\ UNCHANGED <<tables, scenarios, out>>

\* --------------------------------------------- generate_complete_report
Timestamps == 1..MaxTime

\* Line 649
report_begin ==
    /\ pc = "report_begin"
    /\ \E now \in Timestamps : report' = [timestamp |-> now]
    /\ pc' = "report_infrastructure"
    /\ UNCHANGED <<tables, scenarios, stack, call, ret, memo, roi, calls, out>>

\* Line 650
report_infrastructure ==
    /\ pc = "report_infrastructure"
    /\ report' = report @@
            [infrastructure_costs |-> calculate_total_infrastructure_cost(SelfNow)]
    /\ calls' = BumpInfra(calls, 1)
    /\ pc' = "report_operational"
    /\ UNCHANGED <<tables, scenarios, stack, call, ret, memo, roi, out>>

\* Line 651
report_operational ==
    /\ pc = "report_operational"
    /\ report' = report @@ [operational_costs |-> calculate_operational_costs(SelfNow)]
    /\ calls' = Bump(calls, "calculate_operational_costs", 1)
    /\ pc' = "report_one_time"
    /\ UNCHANGED <<tables, scenarios, stack, call, ret, memo, roi, out>>

\* Line 652
report_one_time ==
    /\ pc = "report_one_time"
    /\ report' = report @@ [one_time_costs |-> calculate_one_time_costs(SelfNow)]
    /\ calls' = Bump(calls, "calculate_one_time_costs", 1)
    /\ pc' = "report_roi"
    /\ UNCHANGED <<tables, scenarios, stack, call, ret, memo, roi, out>>

\* Line 653: the call of generate_roi_analysis
report_roi ==
    /\ pc = "report_roi"
    /\ pc' = "roi_begin"
    /\ stack' = <<"report_optimization">> \o stack
    /\ UNCHANGED <<tables, scenarios, call, ret, memo, roi, report, calls, out>>

\* Line 654
report_optimization ==
    /\ pc = "report_optimization"
    /\ report' = report @@
            [cost_optimization |-> generate_cost_optimization_analysis(SelfNow)]
    /\ calls' = BumpInfra(calls, 1)
    /\ pc' = "report_resource_summary"
    /\ UNCHANGED <<tables, scenarios, stack, call, ret, memo, roi, out>>

\* Fault: the infrastructure total evaluated once for both per-unit costs
report_resource_summary_OneTotal ==
    /\ pc = "report_resource_summary"
    /\ LET result == report @@ [resource_summary |-> generate_resource_summary(SelfNow)]
       IN  /\ report' = result
           /\ IF Head(stack) = "idle"
              THEN ReturnOutside(result)
              ELSE /\ calls' = BumpInfra(calls, 1)
                   /\ pc' = Head(stack)
                   /\ stack' = Tail(stack)
                   /\ UNCHANGED <<call, ret, memo>>
    /\ UNCHANGED <<tables, scenarios, roi, out>>

\* Lines 655-656: the last entry, and the return
report_resource_summary ==
    /\ pc = "report_resource_summary"
    /\ LET result == report @@ [resource_summary |-> generate_resource_summary(SelfNow)]
       IN  /\ report' = result
           /\ IF Head(stack) = "idle"
              THEN ReturnOutside(result)
              ELSE /\ calls' = BumpInfra(calls, 2)
                   /\ pc' = Head(stack)
                   /\ stack' = Tail(stack)
                   /\ UNCHANGED <<call, ret, memo>>
    /\ UNCHANGED <<tables, scenarios, roi, out>>

\* ----------------------------------------------------------------- main
\* Lines 715-716: construct the calculator, call generate_complete_report
main_start ==
    /\ pc = "main"
    /\ pricing' = InitPricing
    /\ infrastructure' = InitInfrastructure
    /\ operational_costs' = InitOperationalCosts
    /\ bandwidth_requirements' = InitBandwidthRequirements
    /\ storage_requirements' = InitStorageRequirements
    /\ calls' = NoCalls
    /\ pc' = "report_begin"
    /\ stack' = <<"main_save">>
    /\ UNCHANGED <<scenarios, call, ret, memo, roi, report, out>>

\* Lines 718-720
main_save ==
    /\ pc = "main_save"
    /\ out' = [out EXCEPT !.file = Some(report)]
    /\ pc' = "main_print"
    /\ UNCHANGED <<tables, scenarios, stack, call, ret, memo, roi, report, calls>>

\* Lines 722-743: the figures of the printed summary
Summary(r) ==
    [infrastructure_monthly_cost |-> r.infrastructure_costs.total_monthly,
     operational_monthly_cost |-> r.operational_costs.total_monthly,
     total_monthly_burn |-> DAdd(r.infrastructure_costs.total_monthly,
                                 r.operational_costs.total_monthly),
     one_time_cost |-> r.one_time_costs.total,
     annual_savings |-> r.cost_optimization.total_annual_savings,
     break_even |-> [k \in 1..Len(r.roi_analysis.scenarios) |->
                        r.roi_analysis.scenarios[k].break_even_month],
     total_vcpu |-> r.resource_summary.total_vcpu,
     total_ram_gb |-> r.resource_summary.total_ram_gb,
     total_storage_gb |-> r.resource_summary.total_storage_gb,
     participant_capacity |-> r.resource_summary.participant_capacity,
     cost_per_participant |-> r.resource_summary.cost_per_participant_monthly]

main_print ==
    /\ pc = "main_print"
    /\ out' = [out EXCEPT !.summary = Some(Summary(report))]
    /\ pc' = "done"
    /\ UNCHANGED <<tables, scenarios, stack, call, ret, memo, roi, report, calls>>

\* ------------------------------------------------------- specifications
RoiStep == roi_begin \/ roi_scenario \/ roi_month \/ roi_store \/ roi_return

ReportStep ==
    \/ report_begin \/ report_infrastructure \/ report_operational
    \/ report_one_time \/ report_roi \/ report_optimization
    \/ report_resource_summary

\* the calculator used from outside: any method, in any order
Next ==
    \/ CallInstanceCost \/ CallStorageCost \/ CallLivekitSfuCost
    \/ CallApiServicesCost \/ CallDatabaseCost \/ CallRedisCost
    \/ CallGatewayCost \/ CallMonitoringCost \/ CallBandwidthCost
    \/ CallStorageRequirementsCost \/ CallOperationalCosts
    \/ CallTotalInfrastructureCost \/ CallOneTimeCosts
    \/ CallCostOptimizationAnalysis \/ CallResourceSummary
    \/ CallRoiAnalysis \/ CallCompleteReport
    \/ RoiStep \/ ReportStep

Spec == Init /\ [][Next]_vars

\* ------------------------------------------------ the bandwidth tiers
\* Monthly totals, in GB: the multiples of 50 TB, the GB on either side of the
\* included 1 TB and of the two tier bounds, and the configured traffic
TierSampleGB ==
    {51200 * k : k \in 0..MaxTBStep}
    \cup {1024 * t + d : t \in {1, 100, 500}, d \in {-1, 0, 1}}

TierSamples ==
    {DDivInt(DInt(gb), 1024) : gb \in TierSampleGB}
    \cup {MonthlyBandwidth(SelfNow).monthly_bandwidth_tb}

\* Lines 343-371 applied to a monthly total: the previous application is kept
\* in memo
TierProbe ==
    /\ pc = "tier"
    /\ \E monthly_bandwidth_tb \in TierSamples :
          /\ call' = [method |-> "bandwidth_cost_of", args |-> <<monthly_bandwidth_tb>>]
          /\ ret' = Some(BandwidthResult(SelfNow,
                                         MonthlyBandwidth(SelfNow).total_per_meeting_mbps,
                                         monthly_bandwidth_tb))
    /\ memo' = IF ret = None THEN None
               ELSE Some([call |-> call, ret |-> ret, fresh |-> FALSE])
    /\ UNCHANGED <<tables, scenarios, pc, stack, roi, report, calls, out>>

InitTier ==
    /\ InitCommon
    /\ scenarios = InitScenarios
    /\ pc = "tier"

NextTier == TierProbe

SpecTier == InitTier /\ [][NextTier]_vars

\* one run of the program
NextMain == main_start \/ ReportStep \/ RoiStep \/ main_save \/ main_print

SpecMain == InitMain /\ [][NextMain]_vars

\* the interpreter keeps executing the single thread until main returns
SpecMainLive == SpecMain /\ WF_vars(NextMain)

\* ================================================================ claims
Returned(method) == call.method = method /\ ret # None

Result == ret[1]

\* The scenario entries computed so far: those of the report once
\* generate_roi_analysis has returned, else those of the running call
RoiEntries ==
    IF "roi_analysis" \in DOMAIN report THEN report.roi_analysis.scenarios
    ELSE roi.roi_analysis

\* Cumulative profit at month m by its definition: the monthly profits of
\* months 1..m (a twelfth of the yearly profit of the month's year) less the
\* one-time costs
CumulativeAt(yearly_profit, m) ==
    DSub(DSum([k \in 1..m |-> DDivInt(yearly_profit[((k - 1) \div 12) + 1], 12)]),
         calculate_one_time_costs(SelfNow).total)

FirstPositiveMonth(e) ==
    /\ (e.break_even_month = None) <=>
            (\A m \in 1..36 : ~DPos(CumulativeAt(e.yearly_profit, m)))
    /\ e.break_even_month # None =>
            /\ e.break_even_month[1] \in 1..36
            /\ DPos(CumulativeAt(e.yearly_profit, e.break_even_month[1]))
            /\ \A m \in 1..(e.break_even_month[1] - 1) :
                    ~DPos(CumulativeAt(e.yearly_profit, m))

\* C1: in every scenario entry break_even_month is the smallest month of 1..36
\* whose cumulative profit is strictly positive, and None exactly when no month
\* of 1..36 has a positive cumulative profit
C1_BreakEvenIsFirstPositiveMonth ==
    \A i \in 1..Len(RoiEntries) : FirstPositiveMonth(RoiEntries[i])

\* a scenario that breaks even the month after its cumulative profit was exactly 0
C1_Witness ==
    \E i \in 1..Len(RoiEntries) :
        LET e == RoiEntries[i]
        IN  /\ e.break_even_month # None
            /\ e.break_even_month[1] > 1
            /\ CumulativeAt(e.yearly_profit, e.break_even_month[1] - 1) = DZero

TierArg(c) == c.args[1]

\* C2: the tiered cost is non-decreasing in the monthly total and continuous at
\* the tier bounds: at 100 TB the first and second branch agree, at 500 TB the
\* second and third
C2_TierCostMonotoneContinuous ==
    Returned("bandwidth_cost_of") =>
        /\ memo # None /\ DLe(TierArg(memo[1].call), TierArg(call)) =>
                DLe(memo[1].ret[1].monthly_cost, Result.monthly_cost)
        /\ TierArg(call) = DInt(100) =>
                /\ FirstTierCost(SelfNow, TierArg(call)) = SecondTierCost(SelfNow, TierArg(call))
                /\ Result.monthly_cost = SecondTierCost(SelfNow, TierArg(call))
        /\ TierArg(call) = DInt(500) =>
                /\ SecondTierCost(SelfNow, TierArg(call)) = ThirdTierCost(SelfNow, TierArg(call))
                /\ Result.monthly_cost = ThirdTierCost(SelfNow, TierArg(call))

\* the cost of 500 TB computed after the cost of 100 TB
C2_Witness ==
    /\ Returned("bandwidth_cost_of")
    /\ memo # None
    /\ TierArg(memo[1].call) = DInt(100)
    /\ TierArg(call) = DInt(500)
    /\ DLt(memo[1].ret[1].monthly_cost, Result.monthly_cost)

DMin(x, y) == IF DLe(x, y) THEN x ELSE y

DMax(x, y) == IF DLe(x, y) THEN y ELSE x

\* The marginal-tier price of tb: each part of the total at its tier's price
MarginalTierCost(self, tb) ==
    LET price == self.pricing.storage.bandwidth
        first == DMin(tb, DInt(100))
        next == DMin(DMax(DSub(tb, DInt(100)), DZero), DInt(400))
        above == DMax(DSub(tb, DInt(500)), DZero)
    IN  DAdd(DAdd(DMul(DMulInt(first, 1024), price.first_100tb),
                  DMul(DMulInt(next, 1024), price.next_400tb)),
             DMul(DMulInt(above, 1024), price.above_500tb))

C4_InstanceCostExact ==
    Returned("calculate_instance_cost") =>
        LET instance_type == call.args[1]
            n == call.args[2]
            row == pricing.instances[instance_type]
        IN  /\ Result.monthly_cost = DInt(n * row.price)
            /\ Result.annual_cost = DInt(12 * n * row.price)
            /\ Result.vcpu_total = n * row.vcpu
            /\ Result.ram_total_gb = n * row.ram
            /\ Result.instance_type = instance_type
            /\ Result.nodes = n

C4_Witness ==
    /\ Returned("calculate_instance_cost")
    /\ call.args = <<"large", 2>>
    /\ Result.monthly_cost = DInt(668)
    /\ Result.ram_total_gb = 128

\* The monthly cost a component reports: total_monthly, or monthly_cost
MonthlyCostOf(component) ==
    IF "total_monthly" \in DOMAIN component THEN component.total_monthly
    ELSE component.monthly_cost

\* C5: infrastructure_monthly is the sum of the monthly cost of every one of
\* the eight components of the components list
C5_AggregateSumsEveryComponent ==
    Returned("calculate_total_infrastructure_cost") =>
        /\ Len(Result.components) = 8
        /\ Result.infrastructure_monthly =
                DSum([k \in 1..Len(Result.components) |->
                        MonthlyCostOf(Result.components[k])])

\* The cost dictionaries directly inside a result dictionary
DictKeys ==
    <<"base_cost", "storage_cost", "primary_cost", "replicas_cost", "pgbouncer_cost",
      "masters_cost", "traefik_cost">>

ListKeys == <<"services", "components">>

RECURSIVE DictsUnder(_, _), ListsUnder(_, _)
DictsUnder(d, keys) ==
    IF keys = <<>> THEN <<>>
    ELSE (IF Head(keys) \in DOMAIN d THEN <<d[Head(keys)]>> ELSE <<>>)
         \o DictsUnder(d, Tail(keys))

ListsUnder(d, keys) ==
    IF keys = <<>> THEN <<>>
    ELSE (IF Head(keys) \in DOMAIN d THEN d[Head(keys)] ELSE <<>>)
         \o ListsUnder(d, Tail(keys))

Inside(d) == DictsUnder(d, DictKeys) \o ListsUnder(d, ListKeys)

RECURSIVE InsideAll(_)
InsideAll(ds) == IF ds = <<>> THEN <<>> ELSE Inside(Head(ds)) \o InsideAll(Tail(ds))

\* a result dictionary with the dictionaries nested in it, two levels deep
AllDicts(d) == <<d>> \o Inside(d) \o InsideAll(Inside(d))

Twelve(x) == DSum([k \in 1..12 |-> x])

AnnualIsTwelveMonthly(d) ==
    /\ ("monthly_cost" \in DOMAIN d /\ "annual_cost" \in DOMAIN d) =>
            d.annual_cost = Twelve(d.monthly_cost)
    /\ ("total_monthly" \in DOMAIN d /\ "total_annual" \in DOMAIN d) =>
            d.total_annual = Twelve(d.total_monthly)

CalculateMethods ==
    Routines \cup {"calculate_instance_cost", "calculate_storage_cost"}

\* C6: in every dictionary a calculate_* method returns, nested ones included,
\* the annual figure is 12 times the monthly figure of the same dictionary
C6_AnnualIsTwelveTimesMonthly ==
    (call.method \in CalculateMethods /\ ret # None) =>
        With(AllDicts(Result),
             LAMBDA ds : \A k \in 1..Len(ds) : AnnualIsTwelveMonthly(ds[k]))

\* the infrastructure total, with its eight components and their parts
C6_Witness ==
    /\ Returned("calculate_total_infrastructure_cost")
    /\ Len(AllDicts(Result)) > 9
    /\ Result.total_annual = Twelve(Result.total_monthly)
    /\ DPos(Result.total_annual)

\* C7: contingency_monthly is 15% of infrastructure_monthly, total_monthly is
\* their sum, 1.15 times infrastructure_monthly, and not below it when the
\* aggregate is not negative
C7_ContingencyFifteenPercent ==
    Returned("calculate_total_infrastructure_cost") =>
        /\ DMulInt(Result.contingency_monthly, 100) = DMulInt(Result.infrastructure_monthly, 15)
        /\ Result.total_monthly = DAdd(Result.infrastructure_monthly, Result.contingency_monthly)
        /\ DMulInt(Result.total_monthly, 100) = DMulInt(Result.infrastructure_monthly, 115)
        /\ DLe(DZero, Result.infrastructure_monthly) =>
                DLe(Result.infrastructure_monthly, Result.total_monthly)

C7_Witness ==
    /\ Returned("calculate_total_infrastructure_cost")
    /\ DPos(Result.contingency_monthly)
    /\ DLt(Result.infrastructure_monthly, Result.total_monthly)

SameCall(c, d) == c.method = d.method /\ c.args = d.args

\* equal results; of generate_complete_report, equal but for the timestamp
SameResult(method, r, q) ==
    IF method = "generate_complete_report"
    THEN [r EXCEPT !.timestamp = 0] = [q EXCEPT !.timestamp = 0]
    ELSE r = q

C10_FirstTerabyteFree ==
    Returned("calculate_bandwidth_cost") =>
        /\ Result.monthly_cost =
                TieredBandwidthCost(SelfNow, ChargeableBandwidth(Result.total_bandwidth_tb))
        /\ DLe(Result.total_bandwidth_tb, DInt(1)) => Result.monthly_cost = DZero

\* The monthly costs of the listed components an optimization names
NamedComponentsCost(components, opt_name) ==
    DSum([k \in 1..Len(components) |->
            IF components[k].component \in Optimizations[opt_name].applicable_components
            THEN MonthlyCostOf(components[k]) ELSE DZero])

ComponentNamed(components, name) ==
    components[CHOOSE k \in 1..Len(components) : components[k].component = name]

OptimizationSumsHold(components, r) ==
    /\ \A k \in 1..Len(r.optimizations) :
            LET d == r.optimizations[k]
            IN  /\ d.applicable_cost = NamedComponentsCost(components, d.optimization)
                /\ d.monthly_savings = DMul(d.applicable_cost, d.savings_percentage)
    /\ r.optimizations[4].optimization = "network_optimization"
    /\ r.optimizations[4].monthly_savings =
            DMul(MonthlyCostOf(ComponentNamed(components, "Bandwidth")), Frac(30, 100))
    /\ r.optimizations[3].optimization = "storage_optimization"
    /\ r.optimizations[3].monthly_savings =
            DMul(MonthlyCostOf(ComponentNamed(components, "Storage (Recordings)")),
                 Frac(50, 100))
    /\ r.total_monthly_savings =
            DSum([k \in 1..Len(r.optimizations) |-> r.optimizations[k].monthly_savings])
    /\ r.optimized_monthly_cost = DSub(r.base_monthly_cost, r.total_monthly_savings)

\* C11: each optimization's applicable_cost is the sum of the monthly costs of
\* the components it names and its monthly_savings the percentage of that;
\* network_optimization saves 30% of Bandwidth's monthly cost and
\* storage_optimization 50% of Storage (Recordings)'; total_monthly_savings is
\* the sum of the savings and optimized_monthly_cost the base less that sum
C11_OptimizationSums ==
    Returned("generate_cost_optimization_analysis") =>
        With(calculate_total_infrastructure_cost(SelfNow).components,
             LAMBDA components : OptimizationSumsHold(components, Result))

\* The invocations of a routine in one generate_complete_report: the total and
\* its eight component routines at lines 650, 527, 589, 709 and 710;
\* calculate_operational_costs at lines 651 and 526; calculate_one_time_costs
\* at lines 652 and 584 and once per scenario at line 555
CallsPerReport(r) ==
    IF r = "calculate_operational_costs" THEN 2
    ELSE IF r = "calculate_one_time_costs" THEN 2 + Len(scenarios)
    ELSE 5

\* C12 as stated: in one run of main no calculate_* routine is invoked more
\* than once, and at the end each has been invoked exactly once
C12_EachRoutineOnce ==
    /\ \A r \in Routines : calls[r] <= 1
    /\ pc = "done" => \A r \in Routines : calls[r] = 1

\* C12: in one run of main each routine has been invoked a fixed number of
\* times, more than once: calculate_total_infrastructure_cost and each of its
\* eight component routines 5 times, calculate_operational_costs twice,
\* calculate_one_time_costs twice and once per scenario (5 times for the three
\* built-in scenarios)
C12_RoutineCallCounts ==
    /\ \A r \in Routines : calls[r] <= CallsPerReport(r)
    /\ pc = "done" => \A r \in Routines : calls[r] = CallsPerReport(r)

\* main finished on the three built-in scenarios
C12_Witness ==
    /\ pc = "done"
    /\ scenarios = InitScenarios
    /\ calls["calculate_total_infrastructure_cost"] = 5
    /\ calls["calculate_bandwidth_cost"] = 5
    /\ calls["calculate_operational_costs"] = 2
    /\ calls["calculate_one_time_costs"] = 5

\* The team's monthly salary cost: count * monthly_salary over every role of
\* team_salaries
RECURSIVE SalarySum(_, _)
SalarySum(salaries, roles) ==
    IF roles = {} THEN 0
    ELSE LET role == CHOOSE x \in roles : TRUE
         IN  salaries[role].count * salaries[role].monthly_salary
             + SalarySum(salaries, roles \ {role})

TeamMonthly == SalarySum(operational_costs.team_salaries, DOMAIN operational_costs.team_salaries)

\* C13: calculate_one_time_costs returns development = 4 * the team's monthly
\* salary cost over all roles, the team_monthly of calculate_operational_costs,
\* and total = development + infrastructure_setup + testing_qa +
\* marketing_launch = development + 130000
C13_OneTimeCosts ==
    Returned("calculate_one_time_costs") =>
        /\ Result.development = DInt(4 * TeamMonthly)
        /\ Result.development =
                DMulInt(calculate_operational_costs(SelfNow).team_monthly, 4)
        /\ Result.total = DAdd(DAdd(DAdd(Result.development, Result.infrastructure_setup),
                                    Result.testing_qa), Result.marketing_launch)
        /\ Result.total = DAdd(Result.development, DInt(130000))

\* the built-in team: 60000 of development, 190000 in all
C13_Witness ==
    /\ Returned("calculate_one_time_costs")
    /\ Result.development = DInt(60000)
    /\ Result.total = DInt(190000)
    /\ Cardinality(DOMAIN operational_costs.team_salaries) = 2

\* C14: in every scenario entry total_3_year_profit is the cumulative profit at
\* month 36, so a positive total_3_year_profit comes with a break_even_month in
\* 1..36 and a break_even_month of None with a total_3_year_profit <= 0
C14_BreakEvenAgreesWithTotal ==
    \A i \in 1..Len(RoiEntries) :
        LET e == RoiEntries[i]
        IN  /\ e.total_3_year_profit = CumulativeAt(e.yearly_profit, 36)
            /\ DPos(e.total_3_year_profit) =>
                    e.break_even_month # None /\ e.break_even_month[1] \in 1..36
            /\ e.break_even_month = None => ~DPos(e.total_3_year_profit)

\* a finished report with a scenario that never breaks even, its
\* total_3_year_profit negative and equal to the cumulative profit at month 36
C14_Witness ==
    /\ pc = "done"
    /\ \E i \in 1..Len(RoiEntries) :
            LET e == RoiEntries[i]
            IN  /\ e.break_even_month = None
                /\ DLt(e.total_3_year_profit, DZero)
                /\ e.total_3_year_profit = CumulativeAt(e.yearly_profit, 36)

OptimizationsNaming(name) ==
    {o \in DOMAIN Optimizations : name \in Optimizations[o].applicable_components}

OptimizationBoundsHold(total, r) ==
    /\ \A k \in 1..Len(total.components) :
            Cardinality(OptimizationsNaming(total.components[k].component)) <= 1
    /\ \A k \in 1..Len(r.optimizations) :
            LET p == r.optimizations[k].savings_percentage
            IN  /\ p = Optimizations[r.optimizations[k].optimization].savings_percentage
                /\ 0 <= p.num /\ p.num <= p.den
    /\ DLe(r.total_monthly_savings, total.infrastructure_monthly)
    /\ DLe(DZero, r.optimized_monthly_cost)
    /\ DLe(r.optimized_monthly_cost, r.base_monthly_cost)

\* C15: every component of the cost breakdown is named by at most one
\* optimization and every savings_percentage lies in [0,1]; total_monthly_savings
\* does not exceed the un-contingencied sum of the component costs, and
\* 0 <= optimized_monthly_cost <= base_monthly_cost
C15_OptimizationBounds ==
    Returned("generate_cost_optimization_analysis") =>
        With(calculate_total_infrastructure_cost(SelfNow),
             LAMBDA total : OptimizationBoundsHold(total, Result))

\* the built-in analysis: positive savings, a positive optimized cost below the base
C15_Witness ==
    /\ Returned("generate_cost_optimization_analysis")
    /\ DPos(Result.total_monthly_savings)
    /\ DPos(Result.optimized_monthly_cost)
    /\ DLt(Result.optimized_monthly_cost, Result.base_monthly_cost)

InstanceBearing ==
    {"LiveKit SFU", "API Services", "Database Layer", "Redis Cluster", "API Gateway",
     "Monitoring Stack"}

\* The instance-cost and storage-cost entries of the instance-bearing components
RECURSIVE EntriesOf(_)
EntriesOf(components) ==
    IF components = <<>> THEN <<>>
    ELSE (IF Head(components).component \in InstanceBearing
          THEN Inside(Head(components)) ELSE <<>>)
         \o EntriesOf(Tail(components))

FieldSum(entries, field) ==
    ISum([k \in 1..Len(entries) |->
            IF field \in DOMAIN entries[k] THEN entries[k][field] ELSE 0])

StorageSum(entries) ==
    DSum([k \in 1..Len(entries) |->
            IF "storage_gb" \in DOMAIN entries[k] THEN entries[k].storage_gb ELSE DZero])

ResourcesMatch(entries, r) ==
    /\ r.total_vcpu = FieldSum(entries, "vcpu_total")
    /\ r.total_ram_gb = FieldSum(entries, "ram_total_gb")
    /\ DInt(r.total_storage_gb) = StorageSum(entries)

\* C16: total_vcpu and total_ram_gb of generate_resource_summary are the sums of
\* vcpu_total and ram_total_gb over the instance-cost entries of the six
\* instance-bearing cost components, and total_storage_gb the sum of storage_gb
\* over their storage-cost entries
C16_ResourceSummaryMatchesCosts ==
    Returned("generate_resource_summary") =>
        With(EntriesOf(InfrastructureComponents(SelfNow)),
             LAMBDA entries : ResourcesMatch(entries, Result))

\* the built-in topology: 936 vCPU, 3744 GB of RAM and 19570 GB of storage,
\* over 21 cost entries
C16_Witness ==
    /\ Returned("generate_resource_summary")
    /\ Result.total_vcpu = 936
    /\ Result.total_ram_gb = 3744
    /\ Result.total_storage_gb = 19570
    /\ Len(EntriesOf(InfrastructureComponents(SelfNow))) = 21

ReportComplete == "resource_summary" \in DOMAIN report

====
